---- MODULE Spec2Model ----
(***************************************************************************)
(* take-me-there: calendar validity (structure.rs), the station registry   *)
(* built by MultiConnection::from (structure.rs) and the time-expanded     *)
(* connection graph with its reverse lookups (connection_graph.rs).        *)
(*                                                                         *)
(* Conventions.  Vec indices are 0-based as in the code: At0(v, i) reads   *)
(* v[i].  Option<T> is a sequence: None is <<>>, Some(x) is <<x>>.  A      *)
(* NaiveTime is its number of whole seconds since midnight (the parser and *)
(* the deserializer only produce whole seconds).  A NaiveDateTime is a     *)
(* number of instants, DayLen instants to the day.  A map (HashMap,        *)
(* BTreeMap) is a function; its iteration order is modelled where the code *)
(* iterates it.                                                            *)
(***************************************************************************)
EXTENDS Integers, Sequences, FiniteSets, TLC

VARIABLES
    value,            \* Vec<Connection>: the argument of MultiConnection::from
    connections,      \* MultiConnection
    date,             \* NaiveDateTime: the target date
    pc,               \* position in ConnectionGraph::new / in a call
    order,            \* iteration order of the HashMap `stations`
    stations,         \* HashMap<String, Station<usize>>
    stations_by_ids,  \* BTreeMap<usize, String> (names_by_ids)
    vert_count,       \* usize returned by populate_station_info_and_count_verts
    graph,            \* GraphMap<usize, i64, Directed>
    ret               \* the value returned by the last call of a query

vars == <<value, connections, date, pc, order, stations, stations_by_ids,
          vert_count, graph, ret>>

----------------------------------------------------------------------------
(* Bounds of the model *)

MaxStops == 3
MaxTime == 3
MaxJourneys == 2
MaxPassings == 2
MaxInstant == 7
MaxBit == 3
MaxDays == 2
MaxFiles == 2
MaxFileStops == 2
MaxShuttleTime == 5

(* instants per day: NaiveDateTime carries a time of day, and                *)
(* Duration::num_days truncates to whole days                               *)
DayLen == 2

----------------------------------------------------------------------------
(* Generic helpers *)

None == <<>>
Some(x) == <<x>>
unwrap(o) == o[1]
At0(v, i) == v[i + 1]
EmptyMap == [x \in {} |-> 0]
Range(s) == {s[i] : i \in DOMAIN s}
SetMin(S) == CHOOSE x \in S : \A y \in S : x <= y
SetMax(S) == CHOOSE x \in S : \A y \in S : x >= y
MapPut(m, k, v) == [x \in DOMAIN m \cup {k} |-> IF x = k THEN v ELSE m[x]]

(* Option<NaiveTime> `a <= b` as derived PartialOrd: None is below every Some *)
OptLe(a, b) ==
    IF a = None THEN TRUE
    ELSE IF b = None THEN FALSE
    ELSE unwrap(a) <= unwrap(b)

RECURSIVE Orderings(_)
Orderings(S) ==
    IF S = {} THEN {<<>>}
    ELSE UNION {{<<x>> \o p : p \in Orderings(S \ {x})} : x \in S}

(* the keys of a BTreeMap in ascending order *)
RECURSIVE Ascending(_)
Ascending(S) ==
    IF S = {} THEN <<>>
    ELSE <<SetMin(S)>> \o Ascending(S \ {SetMin(S)})

----------------------------------------------------------------------------
(* structure.rs: calendar validity *)

(* a slip: the offset in instants, not in whole days, indexes the bits *)
OperatingPeriod_is_valid_probe_no_days(period, d) ==
    IF period.from_date > d \/ d > period.to_date
    THEN [result |-> FALSE, tested |-> None]
    ELSE [result |-> (d - period.from_date) \in period.day_bits,
          tested |-> Some(d - period.from_date)]

(* OperatingPeriod::is_valid, with the bit index it tests (None when it       *)
(* returns before testing one)                                               *)
OperatingPeriod_is_valid_probe(period, d) ==
    IF period.from_date > d \/ d > period.to_date
    THEN [result |-> FALSE, tested |-> None]
    ELSE LET delta == d - period.from_date
             num_days == delta \div DayLen
         IN [result |-> num_days \in period.day_bits, tested |-> Some(num_days)]

OperatingPeriod_is_valid(period, d) == OperatingPeriod_is_valid_probe(period, d).result

(* the `for day_idx in &self.days` loop of Journey::is_valid, from index k *)
RECURSIVE Journey_days_loop(_, _, _, _)
Journey_days_loop(days, parent, d, k) ==
    IF k >= Len(days) THEN FALSE
    ELSE LET day_idx == At0(days, k)
             period_opt == At0(parent.day_types, day_idx)
         IN IF period_opt # None
               /\ OperatingPeriod_is_valid(At0(parent.operating_periods, unwrap(period_opt)), d)
            THEN TRUE
            ELSE Journey_days_loop(days, parent, d, k + 1)

(* a slip: valid_to excluded from the window *)
Journey_is_valid_open_end(journey, parent, d) ==
    IF journey.valid_from > d \/ d >= journey.valid_to
    THEN FALSE
    ELSE Journey_days_loop(journey.days, parent, d, 0)

Journey_is_valid(journey, parent, d) ==
    IF journey.valid_from > d \/ d > journey.valid_to
    THEN FALSE
    ELSE Journey_days_loop(journey.days, parent, d, 0)

(* MultiConnection::iter_valid_journeys(date): the journeys valid on the     *)
(* date, sub-connection by sub-connection, in stored order                  *)
RECURSIVE iter_valid_journeys_from(_, _, _)
iter_valid_journeys_from(conns, d, k) ==
    IF k >= Len(conns.connections) THEN <<>>
    ELSE LET parent == At0(conns.connections, k)
             Valid(j) == Journey_is_valid(j, parent, d)
         IN SelectSeq(parent.journeys, Valid) \o iter_valid_journeys_from(conns, d, k + 1)

iter_valid_journeys(conns, d) == iter_valid_journeys_from(conns, d, 0)

----------------------------------------------------------------------------
(* structure.rs: impl From<Vec<Connection>> for MultiConnection *)

(* a slip: the name is pushed without the contains_key test *)
from_stop_step_always_push(acc, stop, k) ==
    [new_stops |-> Append(acc.new_stops, stop),
     idx_stop |-> MapPut(acc.idx_stop, stop, Len(acc.new_stops)),
     idx_sub_stop |-> MapPut(acc.idx_sub_stop, k, Len(acc.new_stops))]

(* one iteration of `for stop in connection.stops`: acc carries new_stops,  *)
(* idx_stop and this file's idx_sub_stop; k is sub_stop_counter and         *)
(* stop_counter is new_stops.len()                                          *)
from_stop_step(acc, stop, k) ==
    LET fresh == stop \notin DOMAIN acc.idx_stop
        idx_stop == IF fresh THEN MapPut(acc.idx_stop, stop, Len(acc.new_stops))
                    ELSE acc.idx_stop
        new_stops == IF fresh THEN Append(acc.new_stops, stop) ELSE acc.new_stops
    IN [new_stops |-> new_stops,
        idx_stop |-> idx_stop,
        idx_sub_stop |-> MapPut(acc.idx_sub_stop, k, idx_stop[stop])]

RECURSIVE from_stops_loop(_, _, _)
from_stops_loop(stops, acc, k) ==
    IF k >= Len(stops) THEN acc
    ELSE from_stops_loop(stops, from_stop_step(acc, At0(stops, k), k), k + 1)

(* a slip: the passings keep their file-local stop index *)
from_remap_journey_local_index(journey, idx_sub_stop) ==
    [passings |-> [i \in DOMAIN journey.passings |->
                      [stop_point |-> journey.passings[i].stop_point,
                       arrival |-> journey.passings[i].arrival,
                       departure |-> journey.passings[i].departure]],
     valid_from |-> journey.valid_from,
     valid_to |-> journey.valid_to,
     days |-> journey.days]

from_remap_journey(journey, idx_sub_stop) ==
    [passings |-> [i \in DOMAIN journey.passings |->
                      [stop_point |-> idx_sub_stop[journey.passings[i].stop_point],
                       arrival |-> journey.passings[i].arrival,
                       departure |-> journey.passings[i].departure]],
     valid_from |-> journey.valid_from,
     valid_to |-> journey.valid_to,
     days |-> journey.days]

(* the `for connection in value` loop, from file k *)
RECURSIVE from_files_loop(_, _, _, _, _)
from_files_loop(files, new_stops, idx_stop, sub_conns, k) ==
    IF k >= Len(files)
    THEN [stops |-> new_stops, connections |-> sub_conns]
    ELSE LET connection == At0(files, k)
             acc == from_stops_loop(connection.stops,
                        [new_stops |-> new_stops, idx_stop |-> idx_stop,
                         idx_sub_stop |-> EmptyMap], 0)
             new_journeys == [i \in DOMAIN connection.journeys |->
                                 from_remap_journey(connection.journeys[i], acc.idx_sub_stop)]
         IN from_files_loop(files, acc.new_stops, acc.idx_stop,
                Append(sub_conns,
                    [operating_periods |-> connection.operating_periods,
                     day_types |-> connection.day_types,
                     journeys |-> new_journeys]),
                k + 1)

MultiConnection_from(files) == from_files_loop(files, <<>>, EmptyMap, <<>>, 0)

----------------------------------------------------------------------------
(* connection_graph.rs: the builder *)

(* GraphMap::add_edge: adds both nodes; an existing (a, b) edge has its      *)
(* weight replaced                                                          *)
add_edge(g, a, b, w) ==
    [nodes |-> g.nodes \cup {a, b}, edges |-> MapPut(g.edges, <<a, b>>, w)]

EmptyGraph == [nodes |-> {}, edges |-> EmptyMap]

prepare_station_info(names) ==
    [n \in Range(names) |-> [init |-> 0, fin |-> 0, times |-> EmptyMap]]

(* a slip: only the departure of a passing is recorded *)
RECURSIVE collect_passings_departures_only(_, _, _, _)
collect_passings_departures_only(st, stops, passings, k) ==
    IF k >= Len(passings) THEN st
    ELSE LET pass == At0(passings, k)
             name == At0(stops, pass.stop_point)
             t2 == IF pass.departure # None
                   THEN MapPut(st[name].times, unwrap(pass.departure), 0)
                   ELSE st[name].times
             st2 == IF name \in DOMAIN st
                    THEN [st EXCEPT ![name].times = t2]
                    ELSE st
         IN collect_passings_departures_only(st2, stops, passings, k + 1)

(* the `for pass in &journey.passings` loop of the time collection *)
RECURSIVE collect_passings(_, _, _, _)
collect_passings(st, stops, passings, k) ==
    IF k >= Len(passings) THEN st
    ELSE LET pass == At0(passings, k)
             name == At0(stops, pass.stop_point)
             t1 == IF pass.arrival # None
                   THEN MapPut(st[name].times, unwrap(pass.arrival), 0)
                   ELSE st[name].times
             t2 == IF pass.departure # None
                   THEN MapPut(t1, unwrap(pass.departure), 0)
                   ELSE t1
             st2 == IF name \in DOMAIN st
                    THEN [st EXCEPT ![name].times = t2]
                    ELSE st
         IN collect_passings(st2, stops, passings, k + 1)

(* the `for journey in connections.iter_valid_journeys(date)` loop *)
RECURSIVE collect_times(_, _, _, _)
collect_times(st, stops, journeys, k) ==
    IF k >= Len(journeys) THEN st
    ELSE collect_times(collect_passings(st, stops, At0(journeys, k).passings, 0),
                       stops, journeys, k + 1)

(* a slip: the times are numbered from base + 1, onto the Final vertex *)
number_station_no_fin_slot(station, base) ==
    [init |-> base,
     fin |-> base + 1,
     times |-> [t \in DOMAIN station.times |->
                   base + 1 + Cardinality({u \in DOMAIN station.times : u < t})]]

(* one station's block: init, fin, then its times in ascending order *)
number_station(station, base) ==
    [init |-> base,
     fin |-> base + 1,
     times |-> [t \in DOMAIN station.times |->
                   base + 2 + Cardinality({u \in DOMAIN station.times : u < t})]]

(* the `for (name, station) in stations` loop, walking the map in `ord` *)
RECURSIVE number_stations(_, _, _, _, _)
number_stations(st, names_by_ids, count, ord, k) ==
    IF k >= Len(ord)
    THEN [stations |-> st, names_by_ids |-> names_by_ids, vert_count |-> count]
    ELSE LET name == At0(ord, k)
             numbered == number_station(st[name], count)
         IN number_stations([st EXCEPT ![name] = numbered],
                            MapPut(names_by_ids, count, name),
                            count + 2 + Cardinality(DOMAIN st[name].times),
                            ord, k + 1)

populate_station_info_and_count_verts(st, names_by_ids, conns, d, ord) ==
    number_stations(
        collect_times(st, conns.stops, iter_valid_journeys(conns, d), 0),
        names_by_ids, 0, ord, 0)

(* a slip: `<` for `<=`, so a pair with arrival = departure gets an edge *)
connect_pair_allow_equal(r, st, stops, start_st, end_st) ==
    IF end_st.arrival # start_st.departure /\ OptLe(end_st.arrival, start_st.departure)
    THEN r
    ELSE IF start_st.departure = None
    THEN [r EXCEPT !.panic = TRUE]
    ELSE LET start_id == st[At0(stops, start_st.stop_point)].times[unwrap(start_st.departure)]
             end_id == st[At0(stops, end_st.stop_point)].times[unwrap(end_st.arrival)]
         IN [r EXCEPT !.graph = add_edge(r.graph, start_id, end_id,
                          unwrap(end_st.arrival) - unwrap(start_st.departure))]

(* a slip: the weight is taken as departure minus arrival *)
connect_pair_reversed_weight(r, st, stops, start_st, end_st) ==
    IF OptLe(end_st.arrival, start_st.departure)
    THEN r
    ELSE IF start_st.departure = None
    THEN [r EXCEPT !.panic = TRUE]
    ELSE LET start_id == st[At0(stops, start_st.stop_point)].times[unwrap(start_st.departure)]
             end_id == st[At0(stops, end_st.stop_point)].times[unwrap(end_st.arrival)]
         IN [r EXCEPT !.graph = add_edge(r.graph, start_id, end_id,
                          unwrap(start_st.departure) - unwrap(end_st.arrival))]

(* one iteration of `for i in 0..journey.passings.len() - 1`: r carries the  *)
(* graph and whether the builder has panicked                               *)
connect_pair(r, st, stops, start_st, end_st) ==
    IF OptLe(end_st.arrival, start_st.departure)
    THEN r
    ELSE IF start_st.departure = None
    THEN [r EXCEPT !.panic = TRUE]      \* start_st.departure.unwrap() on None
    ELSE LET start_station == st[At0(stops, start_st.stop_point)]
             start_id == start_station.times[unwrap(start_st.departure)]
             end_station == st[At0(stops, end_st.stop_point)]
             end_id == end_station.times[unwrap(end_st.arrival)]
         IN [r EXCEPT !.graph = add_edge(r.graph, start_id, end_id,
                          unwrap(end_st.arrival) - unwrap(start_st.departure))]

RECURSIVE connect_pairs(_, _, _, _, _)
connect_pairs(r, st, stops, passings, i) ==
    IF r.panic \/ i + 1 >= Len(passings) THEN r
    ELSE connect_pairs(connect_pair(r, st, stops, At0(passings, i), At0(passings, i + 1)),
                       st, stops, passings, i + 1)

(* one journey: `passings.len() - 1` on an empty Vec overflows usize, which  *)
(* panics (debug build) or wraps, and then passings[0] panics               *)
connect_journey(r, st, stops, journey) ==
    IF Len(journey.passings) = 0
    THEN [r EXCEPT !.panic = TRUE]
    ELSE connect_pairs(r, st, stops, journey.passings, 0)

RECURSIVE connect_journeys(_, _, _, _, _)
connect_journeys(r, st, stops, journeys, k) ==
    IF r.panic \/ k >= Len(journeys) THEN r
    ELSE connect_journeys(connect_journey(r, st, stops, At0(journeys, k)),
                          st, stops, journeys, k + 1)

connect_between_stations(g, st, conns, d) ==
    connect_journeys([graph |-> g, panic |-> FALSE], st, conns.stops,
                     iter_valid_journeys(conns, d), 0)

(* a slip: waiting for the next time costs nothing *)
within_step_free_wait(g, station, last, vert) ==
    LET g1 == add_edge(g, station.times[last], station.times[vert], 0)
        g2 == add_edge(g1, station.times[vert], station.fin, 0)
    IN add_edge(g2, station.init, station.times[vert], 0)

(* a slip: only the first time vertex of a station is joined to Final *)
within_step_without_fin(g, station, last, vert) ==
    LET g1 == add_edge(g, station.times[last], station.times[vert], vert - last)
    IN add_edge(g1, station.init, station.times[vert], 0)

(* a slip: the wait is weighed in whole minutes (num_minutes) *)
within_step_whole_minutes(g, station, last, vert) ==
    LET g1 == add_edge(g, station.times[last], station.times[vert], (vert - last) \div 60)
        g2 == add_edge(g1, station.times[vert], station.fin, 0)
    IN add_edge(g2, station.init, station.times[vert], 0)

(* one iteration of `for vert in iter`: last and vert are times of day *)
within_step(g, station, last, vert) ==
    LET g1 == add_edge(g, station.times[last], station.times[vert], vert - last)
        g2 == add_edge(g1, station.times[vert], station.fin, 0)
    IN add_edge(g2, station.init, station.times[vert], 0)

(* the `for vert in iter` loop of one station, over its times ts (ascending) *)
RECURSIVE within_chain(_, _, _, _)
within_chain(g, station, ts, k) ==
    IF k >= Len(ts) THEN g
    ELSE within_chain(within_step(g, station, At0(ts, k - 1), At0(ts, k)),
                      station, ts, k + 1)

(* the first time vertex: `if let Some(mut last) = iter.next()` *)
within_first(g, station, first) ==
    LET g1 == add_edge(g, station.times[first], station.fin, 0)
    IN add_edge(g1, station.init, station.times[first], 0)

(* a slip: the first time vertex is not joined to Init *)
within_station_first_without_init(g, station) ==
    LET ts == Ascending(DOMAIN station.times)
    IN IF Len(ts) = 0 THEN g
       ELSE within_chain(add_edge(g, station.times[At0(ts, 0)], station.fin, 0),
                         station, ts, 1)

(* a slip: the idea noted in the code, the last time joined to the first *)
within_station_last_to_first(g, station) ==
    LET ts == Ascending(DOMAIN station.times)
    IN IF Len(ts) = 0 THEN g
       ELSE LET g1 == within_chain(within_first(g, station, At0(ts, 0)), station, ts, 1)
            IN IF Len(ts) = 1 THEN g1
               ELSE add_edge(g1, station.times[At0(ts, Len(ts) - 1)],
                             station.times[At0(ts, 0)], 0)

within_station(g, station) ==
    LET ts == Ascending(DOMAIN station.times)
    IN IF Len(ts) = 0 THEN g
       ELSE within_chain(within_first(g, station, At0(ts, 0)), station, ts, 1)

(* the `for (_, station) in stations` loop, walking the map in `ord` *)
RECURSIVE connect_within_stations_from(_, _, _, _)
connect_within_stations_from(g, st, ord, k) ==
    IF k >= Len(ord) THEN g
    ELSE connect_within_stations_from(within_station(g, st[At0(ord, k)]), st, ord, k + 1)

connect_within_stations(g, st, ord) == connect_within_stations_from(g, st, ord, 0)

----------------------------------------------------------------------------
(* connection_graph.rs: the reverse lookups *)

(* a slip: the range query of stop_by_id, from id upwards *)
terminal_by_id_range_from(st, by_ids, id) ==
    LET from == {k \in DOMAIN by_ids : k >= id}
    IN IF from # {} /\ st[by_ids[SetMin(from)]].fin = id
       THEN Some(by_ids[SetMin(from)])
       ELSE None

terminal_by_id(st, by_ids, id) ==
    LET upto == {k \in DOMAIN by_ids : k <= id}
    IN IF upto # {} /\ st[by_ids[SetMax(upto)]].fin = id
       THEN Some(by_ids[SetMax(upto)])
       ELSE None

(* a slip: the kinds of the Init and Final vertices are exchanged *)
stop_by_id_kinds_exchanged(st, by_ids, id) ==
    LET from == {k \in DOMAIN by_ids : k >= id}
    IN IF from = {} THEN None
       ELSE LET name == by_ids[SetMin(from)]
                station == st[name]
                hits == {t \in DOMAIN station.times : station.times[t] = id}
            IN IF station.init = id THEN Some([name |-> name, detail |-> <<"Terminal">>])
               ELSE IF station.fin = id THEN Some([name |-> name, detail |-> <<"Initial">>])
               ELSE IF hits # {} THEN Some([name |-> name, detail |-> <<"At", SetMin(hits)>>])
               ELSE None

stop_by_id(st, by_ids, id) ==
    LET from == {k \in DOMAIN by_ids : k >= id}
    IN IF from = {} THEN None
       ELSE LET name == by_ids[SetMin(from)]
                station == st[name]
                hits == {t \in DOMAIN station.times : station.times[t] = id}
            IN IF station.init = id THEN Some([name |-> name, detail |-> <<"Initial">>])
               ELSE IF station.fin = id THEN Some([name |-> name, detail |-> <<"Terminal">>])
               ELSE IF hits # {} THEN Some([name |-> name, detail |-> <<"At", SetMin(hits)>>])
               ELSE None

----------------------------------------------------------------------------
(* Inputs *)

StopNames == <<"A", "B", "C", "D", "E", "F">>
OptTime == {None} \cup {Some(t) : t \in 0 .. MaxTime}
Passings(n) == [stop_point : 0 .. n - 1, arrival : OptTime, departure : OptTime]

(* the calendar of a graph feed: day type 0 runs on the target date, day    *)
(* type 1 has no operating period                                           *)
FeedDate == DayLen
FeedPeriods == <<[from_date |-> 0, to_date |-> 2 * DayLen - 1, day_bits |-> {1}]>>
FeedDayTypes == <<Some(0), None>>
FeedJourney(ps, days) ==
    [passings |-> ps, valid_from |-> 0, valid_to |-> MaxInstant, days |-> days]
FeedOf(n, journeys) ==
    [stops |-> SubSeq(StopNames, 1, n),
     connections |-> <<[operating_periods |-> FeedPeriods,
                        day_types |-> FeedDayTypes,
                        journeys |-> journeys]>>]

(* feeds of at most one journey, any passings, over 0 .. MaxStops stops;   *)
(* the journey's day-type references are one of dayss                       *)
SingleFeed(feed, dayss) ==
    \E n \in 0 .. MaxStops :
        \/ feed = FeedOf(n, <<>>)
        \/ \E k \in 0 .. MaxPassings : \E ps \in [1 .. k -> Passings(n)] :
               \E days \in dayss :
                   feed = FeedOf(n, <<FeedJourney(ps, days)>>)

(* a trip of two passings as timetables usually give it: a departure from  *)
(* the first stop and an arrival at the second                              *)
Rides ==
    {<<[stop_point |-> a, arrival |-> None, departure |-> Some(t)],
       [stop_point |-> b, arrival |-> Some(u), departure |-> None]>> :
        a \in 0 .. MaxStops - 1, b \in 0 .. MaxStops - 1,
        t \in 0 .. MaxTime, u \in 0 .. MaxTime}

(* feeds of 2 .. MaxJourneys such trips over MaxStops stops; the last trip  *)
(* may be invalid on the target date                                        *)
RideFeed(feed) ==
    \E k \in 2 .. MaxJourneys : \E pss \in [1 .. k -> Rides] :
        \E days \in {<<0>>, <<1>>} :
            feed = FeedOf(MaxStops,
                [i \in 1 .. k |-> FeedJourney(pss[i], IF i = k THEN days ELSE <<0>>)])

NoGraph ==
    /\ pc = "start"
    /\ order = <<>>
    /\ stations = EmptyMap
    /\ stations_by_ids = EmptyMap
    /\ vert_count = 0
    /\ graph = EmptyGraph
    /\ ret = [op |-> "none"]

----------------------------------------------------------------------------
(* ConnectionGraph::new, one action per function it calls *)

Init ==
    /\ value = <<>>
    /\ SingleFeed(connections, {<<0>>, <<1>>}) \/ RideFeed(connections)
    /\ date = FeedDate
    /\ NoGraph

PrepareStationInfo ==
    /\ pc = "start"
    /\ stations' = prepare_station_info(connections.stops)
    /\ pc' = "prepared"
    /\ UNCHANGED <<value, connections, date, order, stations_by_ids, vert_count, graph, ret>>

PopulateStationInfoAndCountVerts ==
    /\ pc = "prepared"
    /\ \E ord \in Orderings(DOMAIN stations) :
          LET r == populate_station_info_and_count_verts(
                       stations, EmptyMap, connections, date, ord)
          IN /\ order' = ord
             /\ stations' = r.stations
             /\ stations_by_ids' = r.names_by_ids
             /\ vert_count' = r.vert_count
    /\ pc' = "populated"
    /\ UNCHANGED <<value, connections, date, graph, ret>>

ConnectBetweenStations ==
    /\ pc = "populated"
    /\ LET r == connect_between_stations(EmptyGraph, stations, connections, date)
       IN IF r.panic
          THEN pc' = "panic" /\ graph' = graph
          ELSE pc' = "connected" /\ graph' = r.graph
    /\ UNCHANGED <<value, connections, date, order, stations, stations_by_ids, vert_count, ret>>

ConnectWithinStations ==
    /\ pc = "connected"
    /\ graph' = connect_within_stations(graph, stations, order)
    /\ pc' = "done"
    /\ UNCHANGED <<value, connections, date, order, stations, stations_by_ids, vert_count, ret>>

Next ==
    \/ PrepareStationInfo
    \/ PopulateStationInfoAndCountVerts
    \/ ConnectBetweenStations
    \/ ConnectWithinStations

Spec == Init /\ [][Next]_vars

----------------------------------------------------------------------------
(* The reverse lookups, asked of a built ConnectionGraph: every assigned id *)
(* and two ids past the last one.  The feeds have at most one journey,      *)
(* valid on the target date.                                                *)

InitLookup ==
    /\ value = <<>>
    /\ SingleFeed(connections, {<<0>>})
    /\ date = FeedDate
    /\ NoGraph

TerminalById ==
    /\ pc = "done"
    /\ \E id \in 0 .. vert_count + 1 :
          ret' = [op |-> "terminal_by_id", id |-> id,
                  val |-> terminal_by_id(stations, stations_by_ids, id)]
    /\ UNCHANGED <<value, connections, date, pc, order, stations, stations_by_ids,
                   vert_count, graph>>

StopById ==
    /\ pc = "done"
    /\ \E id \in 0 .. vert_count + 1 :
          ret' = [op |-> "stop_by_id", id |-> id,
                  val |-> stop_by_id(stations, stations_by_ids, id)]
    /\ UNCHANGED <<value, connections, date, pc, order, stations, stations_by_ids,
                   vert_count, graph>>

NextLookup ==
    \/ Next
    \/ TerminalById
    \/ StopById

SpecLookup == InitLookup /\ [][NextLookup]_vars

----------------------------------------------------------------------------
(* ConnectionGraph::new on a shuttle line: two stations, and trips from A   *)
(* to B that leave at d and arrive at d + 1 .. h[d], for every departure    *)
(* time d and a latest arrival h[d] of the trips leaving at d.              *)

ShuttleRide(d, u) ==
    <<[stop_point |-> 0, arrival |-> None, departure |-> Some(d)],
      [stop_point |-> 1, arrival |-> Some(u), departure |-> None]>>

RECURSIVE ShuttleJourneys(_, _, _)
ShuttleJourneys(h, d, u) ==
    IF d >= MaxShuttleTime THEN <<>>
    ELSE IF u > h[d] \/ u > MaxShuttleTime THEN ShuttleJourneys(h, d + 1, d + 2)
    ELSE <<FeedJourney(ShuttleRide(d, u), <<0>>)>> \o ShuttleJourneys(h, d, u + 1)

InitShuttle ==
    /\ value = <<>>
    /\ \E h \in [0 .. MaxShuttleTime - 1 -> 0 .. MaxShuttleTime] :
          connections = FeedOf(2, ShuttleJourneys(h, 0, 1))
    /\ date = FeedDate
    /\ NoGraph

SpecShuttle == InitShuttle /\ [][Next]_vars

----------------------------------------------------------------------------
(* Journey::is_valid applied to one journey of one sub-connection.  The two *)
(* operating periods make every combination happen over the dates: only    *)
(* the first valid, both, only the second, none.                            *)

CalendarPeriods ==
    <<[from_date |-> 0, to_date |-> 3 * DayLen - 1, day_bits |-> {0, 2}],
      [from_date |-> DayLen, to_date |-> MaxInstant, day_bits |-> {0, 1}]>>

InitCalendar ==
    /\ value = <<>>
    /\ \E from \in 0 .. MaxInstant, to \in 0 .. MaxInstant, k \in 0 .. MaxDays :
          \E days \in [1 .. k -> 0 .. 1], day_types \in [1 .. 2 -> {None, Some(0), Some(1)}] :
              connections =
                  [stops |-> <<>>,
                   connections |-> <<[operating_periods |-> CalendarPeriods,
                                      day_types |-> day_types,
                                      journeys |-> <<[passings |-> <<>>,
                                                      valid_from |-> from,
                                                      valid_to |-> to,
                                                      days |-> days]>>]>>]
    /\ date \in 0 .. MaxInstant
    /\ NoGraph

JourneyIsValid ==
    /\ pc = "start"
    /\ LET parent == connections.connections[1]
       IN ret' = [op |-> "Journey::is_valid",
                  val |-> Journey_is_valid(parent.journeys[1], parent, date)]
    /\ pc' = "returned"
    /\ UNCHANGED <<value, connections, date, order, stations, stations_by_ids,
                   vert_count, graph>>

NextCalendar == JourneyIsValid

SpecCalendar == InitCalendar /\ [][NextCalendar]_vars

----------------------------------------------------------------------------
(* OperatingPeriod::is_valid applied to one period *)

InitPeriod ==
    /\ value = <<>>
    /\ \E from \in 0 .. MaxInstant, to \in 0 .. MaxInstant, bits \in SUBSET (0 .. MaxBit) :
          connections =
              [stops |-> <<>>,
               connections |-> <<[operating_periods |->
                                      <<[from_date |-> from, to_date |-> to, day_bits |-> bits]>>,
                                  day_types |-> <<>>,
                                  journeys |-> <<>>]>>]
    /\ date \in 0 .. MaxInstant
    /\ NoGraph

OperatingPeriodIsValid ==
    /\ pc = "start"
    /\ LET r == OperatingPeriod_is_valid_probe(
                    connections.connections[1].operating_periods[1], date)
       IN ret' = [op |-> "OperatingPeriod::is_valid", val |-> r.result, tested |-> r.tested]
    /\ pc' = "returned"
    /\ UNCHANGED <<value, connections, date, order, stations, stations_by_ids,
                   vert_count, graph>>

NextPeriod == OperatingPeriodIsValid

SpecPeriod == InitPeriod /\ [][NextPeriod]_vars

----------------------------------------------------------------------------
(* MultiConnection::from applied to the parsed files.  A file lists up to   *)
(* MaxFileStops stop names, duplicates included, and has one journey, which *)
(* passes its stops from the last listed to the first.                      *)

FileStops ==
    UNION {[1 .. k -> Range(SubSeq(StopNames, 1, MaxStops))] : k \in 0 .. MaxFileStops}

FileOf(stops) ==
    [operating_periods |-> FeedPeriods,
     day_types |-> FeedDayTypes,
     stops |-> stops,
     journeys |-> <<FeedJourney([i \in 1 .. Len(stops) |->
                                    [stop_point |-> Len(stops) - i,
                                     arrival |-> IF i = 1 THEN None ELSE Some(i - 1),
                                     departure |-> IF i = Len(stops) THEN None ELSE Some(i - 1)]],
                                <<0>>)>>]

Files == {FileOf(stops) : stops \in FileStops}

InitMerge ==
    /\ \E n \in 0 .. MaxFiles : value \in [1 .. n -> Files]
    /\ connections = [stops |-> <<>>, connections |-> <<>>]
    /\ date = FeedDate
    /\ NoGraph

MultiConnectionFrom ==
    /\ pc = "start"
    /\ connections' = MultiConnection_from(value)
    /\ pc' = "merged"
    /\ UNCHANGED <<value, date, order, stations, stations_by_ids, vert_count, graph, ret>>

NextMerge == MultiConnectionFrom

SpecMerge == InitMerge /\ [][NextMerge]_vars

----------------------------------------------------------------------------
(* The shortest-path query: least total weight from src to every node it    *)
(* reaches; unreachable nodes are absent from the result                    *)

RECURSIVE relax(_, _, _)
relax(g, dist, k) ==
    LET cand == {<<v, dist[v]>> : v \in DOMAIN dist} \cup
                {<<e[2], dist[e[1]] + g.edges[e]>> :
                    e \in {e \in DOMAIN g.edges : e[1] \in DOMAIN dist}}
        next == [v \in {c[1] : c \in cand} |->
                    SetMin({c[2] : c \in {c \in cand : c[1] = v}})]
    IN IF next = dist \/ k = 0 THEN next ELSE relax(g, next, k - 1)

dijkstra(g, src) == relax(g, src :> 0, Cardinality(g.nodes))

----------------------------------------------------------------------------
(* What the timetable says, stated without the builder's loops *)

(* the trip runs on d: inside its window, and some referenced day type has  *)
(* an operating period with the bit of d's day offset set                   *)
PeriodRunsOn(period, d) ==
    /\ period.from_date <= d
    /\ d <= period.to_date
    /\ (d - period.from_date) \div DayLen \in period.day_bits

RunsOn(journey, parent, d) ==
    /\ journey.valid_from <= d
    /\ d <= journey.valid_to
    /\ \E i \in DOMAIN journey.days :
          LET dt == parent.day_types[journey.days[i] + 1]
          IN dt # None /\ PeriodRunsOn(parent.operating_periods[dt[1] + 1], d)

(* the passings sequences of the trips that run on the target date *)
RunningTrips ==
    UNION {{c.journeys[i].passings :
               i \in {i \in DOMAIN c.journeys : RunsOn(c.journeys[i], c, date)}} :
           c \in Range(connections.connections)}

(* the consecutive passing pairs <<start, end>> of the running trips *)
RunningPairs ==
    UNION {{<<ps[i], ps[i + 1]>> : i \in 1 .. Len(ps) - 1} : ps \in RunningTrips}

StopName(pass) == connections.stops[pass.stop_point + 1]
Present(pair) == pair[1].departure # None /\ pair[2].arrival # None
Forward(pair) == Present(pair) /\ pair[2].arrival[1] > pair[1].departure[1]
Elapsed(pair) == pair[2].arrival[1] - pair[1].departure[1]
StartVert(pair) == stations[StopName(pair[1])].times[pair[1].departure[1]]
EndVert(pair) == stations[StopName(pair[2])].times[pair[2].arrival[1]]

Numbered == pc \in {"populated", "connected", "done", "panic"}
Edges == DOMAIN graph.edges
TimeVerts(name) == {stations[name].times[t] : t \in DOMAIN stations[name].times}

----------------------------------------------------------------------------
(* C5: after vertex numbering every station has fin = init + 1, its time    *)
(* vertices are fin+1, fin+2, ... in ascending time order, and all of them  *)
(* lie above fin and below the init of the station numbered next (below the *)
(* vertex count for the last one): blocks are contiguous and disjoint.      *)
C5_BlockLayout ==
    Numbered =>
        \A name \in DOMAIN stations :
            LET s == stations[name]
                ts == Ascending(DOMAIN s.times)
                later == {stations[m].init : m \in {m \in DOMAIN stations :
                                                       stations[m].init > s.init}}
                bound == IF later = {} THEN vert_count ELSE SetMin(later)
            IN /\ s.fin = s.init + 1
               /\ \A k \in 1 .. Len(ts) : s.times[ts[k]] = s.fin + k
               /\ \A t \in DOMAIN s.times : s.times[t] > s.fin /\ s.times[t] < bound
               /\ bound = s.fin + Len(ts) + 1

C5_Witness ==
    /\ Numbered
    /\ \E a, b \in DOMAIN stations :
          /\ Cardinality(DOMAIN stations[a].times) >= 2
          /\ stations[b].init > stations[a].init
          /\ Cardinality(DOMAIN stations[b].times) >= 1

----------------------------------------------------------------------------
(* C3 (as claimed): a consecutive passing pair of a running trip whose      *)
(* departure is absent, whose arrival is absent, or whose arrival is not    *)
(* after the departure, is skipped without failing the construction: when   *)
(* every running trip has a passing, the builder gets past the travel edges *)
(* and every forward pair has its edge.                                     *)
SkipPair(pair) ==
    \/ pair[1].departure = None
    \/ pair[2].arrival = None
    \/ pair[2].arrival[1] <= pair[1].departure[1]

C3_SkippedWithoutFailure ==
    (/\ pc \in {"connected", "panic"}
     /\ \A ps \in RunningTrips : Len(ps) >= 1
     /\ \E pair \in RunningPairs : SkipPair(pair))
    => /\ pc = "connected"
       /\ \A pair \in RunningPairs :
             IF SkipPair(pair)
             THEN \/ ~Present(pair)
                  \/ <<StartVert(pair), EndVert(pair)>> \notin Edges
             ELSE /\ <<StartVert(pair), EndVert(pair)>> \in Edges
                  /\ graph.edges[<<StartVert(pair), EndVert(pair)>>] = Elapsed(pair)

----------------------------------------------------------------------------
(* C6: in the built graph every travel edge comes from a consecutive pair   *)
(* of a running trip with arrival strictly after departure; it joins the    *)
(* time vertex (station i, departure i) to (station i+1, arrival i+1) and   *)
(* weighs arrival - departure > 0 seconds.  A pair with arrival equal to    *)
(* departure has no edge.  The in-station edges added later leave every     *)
(* travel edge in place with its weight.                                    *)
C6_TravelEdges ==
    /\ pc = "connected" =>
          \A e \in Edges :
              \E pair \in RunningPairs :
                  /\ Forward(pair)
                  /\ e = <<StartVert(pair), EndVert(pair)>>
                  /\ graph.edges[e] = Elapsed(pair)
                  /\ graph.edges[e] > 0
    /\ pc \in {"connected", "done"} =>
          \A pair \in RunningPairs :
              /\ (Present(pair) /\ Elapsed(pair) = 0)
                     => <<StartVert(pair), EndVert(pair)>> \notin Edges
              /\ Forward(pair) =>
                     /\ <<StartVert(pair), EndVert(pair)>> \in Edges
                     /\ graph.edges[<<StartVert(pair), EndVert(pair)>>] = Elapsed(pair)

C6_Witness ==
    /\ pc = "connected"
    /\ \E p, q \in RunningPairs :
          /\ Forward(p)
          /\ <<StartVert(p), EndVert(p)>> \in Edges
          /\ Present(q) /\ Elapsed(q) = 0

----------------------------------------------------------------------------
(* C7: in the built graph a station with n >= 1 distinct times has exactly  *)
(* n edges out of Init (one to each time vertex, weight 0), exactly n edges *)
(* into Final (one from each time vertex, weight 0), and its consecutive    *)
(* times are chained by n - 1 wait edges weighing the positive difference   *)
(* of the two times; any other edge among its time vertices is a travel     *)
(* edge of a trip that passes the station twice in a row.                   *)
ChainEdges(s) ==
    LET ts == Ascending(DOMAIN s.times)
    IN {<<s.times[ts[k]], s.times[ts[k + 1]]>> : k \in 1 .. Len(ts) - 1}

C7_FanAndChain ==
    pc = "done" =>
        \A name \in DOMAIN stations :
            LET s == stations[name]
                n == Cardinality(DOMAIN s.times)
                ts == Ascending(DOMAIN s.times)
                out == {e \in Edges : e[1] = s.init}
                into == {e \in Edges : e[2] = s.fin}
                inner == {e \in Edges : e[1] \in TimeVerts(name) /\ e[2] \in TimeVerts(name)}
            IN n >= 1 =>
                /\ out = {<<s.init, v>> : v \in TimeVerts(name)}
                /\ Cardinality(out) = n
                /\ \A e \in out : graph.edges[e] = 0
                /\ into = {<<v, s.fin>> : v \in TimeVerts(name)}
                /\ Cardinality(into) = n
                /\ \A e \in into : graph.edges[e] = 0
                /\ Cardinality(ChainEdges(s)) = n - 1
                /\ \A k \in 1 .. Len(ts) - 1 :
                      /\ <<s.times[ts[k]], s.times[ts[k + 1]]>> \in Edges
                      /\ graph.edges[<<s.times[ts[k]], s.times[ts[k + 1]]>>] = ts[k + 1] - ts[k]
                      /\ ts[k + 1] - ts[k] > 0
                /\ \A e \in inner \ ChainEdges(s) :
                      \E pair \in RunningPairs :
                          Forward(pair) /\ e = <<StartVert(pair), EndVert(pair)>>

C7_Witness ==
    /\ pc = "done"
    /\ \E name \in DOMAIN stations :
          /\ Cardinality(DOMAIN stations[name].times) >= 3
          /\ \E e \in Edges \ ChainEdges(stations[name]) :
                e[1] \in TimeVerts(name) /\ e[2] \in TimeVerts(name)

----------------------------------------------------------------------------
(* Journeys as the timetable gives them: an event is a station at a clock   *)
(* time some running trip arrives or departs there; from an event one may   *)
(* wait at the station for a later event or ride a forward pair.            *)
Events ==
    UNION {{<<StopName(ps[i]), ps[i].arrival[1]>> :
                i \in {i \in DOMAIN ps : ps[i].arrival # None}} \cup
           {<<StopName(ps[i]), ps[i].departure[1]>> :
                i \in {i \in DOMAIN ps : ps[i].departure # None}} :
           ps \in RunningTrips}

(* the rides: <<event boarded, event alighted>> of every forward pair *)
Rideable ==
    {<<<<StopName(pair[1]), pair[1].departure[1]>>,
       <<StopName(pair[2]), pair[2].arrival[1]>>>> :
        pair \in {pair \in RunningPairs : Forward(pair)}}

(* the events reached from those of R by waiting and riding *)
RECURSIVE Closure(_, _, _)
Closure(R, events, rides) ==
    LET more == R \cup {f \in events : \E e \in R :
                           \/ e[1] = f[1] /\ f[2] > e[2]
                           \/ <<e, f>> \in rides}
    IN IF more = R THEN R ELSE Closure(more, events, rides)

(* the <<start instant at A, station reached, arrival instant>> of the      *)
(* journeys that start at A                                                 *)
JourneysFrom(A) ==
    LET events == Events
        rides == Rideable
    IN UNION {{<<e[2], f[1], f[2]>> : f \in Closure({e}, events, rides)} :
              e \in {e \in events : e[1] = A}}

(* C1 (as claimed): the distance from Init(A) to Final(C) is the earliest   *)
(* clock time, in seconds since midnight, at which C is reached from A.     *)
C1_DistanceIsArrivalClockTime ==
    pc = "done" =>
        \A A \in DOMAIN stations :
            LET dist == dijkstra(graph, stations[A].init)
                journeys == JourneysFrom(A)
            IN \A C \in {j[2] : j \in journeys} \ {A} :
                   /\ stations[C].fin \in DOMAIN dist
                   /\ dist[stations[C].fin] =
                          SetMin({j[3] : j \in {j \in journeys : j[2] = C}})

(* C1 (amended): the distance from Init(A) to Final(C) is the least elapsed *)
(* time, in seconds, of a journey from A to C over all start instants:      *)
(* Init reaches every time vertex of A at cost 0, so the clock time of the  *)
(* departure is not part of the distance.                                   *)
C1_DistanceIsShortestDuration ==
    pc = "done" =>
        \A A \in DOMAIN stations :
            LET dist == dijkstra(graph, stations[A].init)
                journeys == JourneysFrom(A)
            IN \A C \in {j[2] : j \in journeys} :
                   /\ stations[C].fin \in DOMAIN dist
                   /\ dist[stations[C].fin] =
                          SetMin({j[3] - j[1] : j \in {j \in journeys : j[2] = C}})

(* three stations, two trips, a transfer at the middle one *)
C1_Witness ==
    /\ pc = "done"
    /\ \E p, q \in RunningPairs :
          /\ Forward(p) /\ Forward(q)
          /\ StopName(p[2]) = StopName(q[1])
          /\ Cardinality({StopName(p[1]), StopName(p[2]), StopName(q[2])}) = 3
          /\ q[1].departure[1] > p[2].arrival[1]
          /\ stations[StopName(q[2])].fin
                 \in DOMAIN dijkstra(graph, stations[StopName(p[1])].init)

----------------------------------------------------------------------------
(* the stops a vertex id stands for: the station and the kind of vertex *)
Owned(id) ==
    UNION {(IF stations[n].init = id
            THEN {[name |-> n, detail |-> <<"Initial">>]} ELSE {}) \cup
           (IF stations[n].fin = id
            THEN {[name |-> n, detail |-> <<"Terminal">>]} ELSE {}) \cup
           {[name |-> n, detail |-> <<"At", t>>] :
               t \in {t \in DOMAIN stations[n].times : stations[n].times[t] = id}} :
           n \in DOMAIN stations}

(* C2 (as claimed): for every vertex id the builder assigned, stop_by_id    *)
(* returns the station owning the id and its kind: Initial, Terminal, or    *)
(* At(t) with the time of day of the time vertex.                           *)
C2_StopByIdRoundTrip ==
    (ret.op = "stop_by_id" /\ ret.id < vert_count)
        => /\ ret.val # None
           /\ ret.val[1] \in Owned(ret.id)

(* C4: terminal_by_id(id) returns station S exactly when id is the Final    *)
(* vertex of S; for Init ids, time-vertex ids and ids past the last         *)
(* assigned vertex it returns not-found.                                    *)
C4_TerminalById ==
    ret.op = "terminal_by_id" =>
        /\ \A n \in DOMAIN stations :
              (ret.val = Some(n)) <=> (stations[n].fin = ret.id)
        /\ (ret.val = None) <=> (\A n \in DOMAIN stations : stations[n].fin # ret.id)
        /\ ret.id >= vert_count => ret.val = None

C4_Witness ==
    /\ ret.op = "terminal_by_id"
    /\ ret.val # None
    /\ \E n \in DOMAIN stations :
          /\ stations[n].init < ret.id - 1
          /\ DOMAIN stations[n].times # {}

----------------------------------------------------------------------------
(* C8: Journey::is_valid is true exactly when the date is inside            *)
(* [valid_from, valid_to], both ends included, and some referenced day type *)
(* has an operating period valid on the date; the order of the references   *)
(* does not matter, and a journey with no valid reference is never valid.   *)
C8_JourneyIsValid ==
    ret.op = "Journey::is_valid" =>
        LET parent == connections.connections[1]
            journey == parent.journeys[1]
            Period(i) == parent.day_types[journey.days[i] + 1]
        IN /\ ret.val <=> RunsOn(journey, parent, date)
           /\ \A perm \in Orderings(DOMAIN journey.days) :
                 Journey_is_valid(
                     [journey EXCEPT !.days = [i \in DOMAIN journey.days |->
                                                  journey.days[perm[i]]]],
                     parent, date) = ret.val
           /\ (\A i \in DOMAIN journey.days :
                  \/ Period(i) = None
                  \/ ~PeriodRunsOn(parent.operating_periods[Period(i)[1] + 1], date))
                 => ~ret.val

(* valid through the second reference only, on the last instant of the window *)
C8_Witness ==
    /\ ret.op = "Journey::is_valid"
    /\ ret.val
    /\ LET parent == connections.connections[1]
           journey == parent.journeys[1]
       IN /\ Len(journey.days) = 2
          /\ parent.day_types[journey.days[1] + 1] = None
          /\ date = journey.valid_to
          /\ date > journey.valid_from

----------------------------------------------------------------------------
(* C9: OperatingPeriod::is_valid is true exactly when from_date <= D <=     *)
(* to_date and the bit of D's offset from from_date in whole days is set;   *)
(* it never tests a bit past (to_date - from_date) in days.  For the period *)
(* of days 0 to 2 with bits {0, 2}: true on days 0 and 2, false on days 1   *)
(* and 3.                                                                   *)
C9_OperatingPeriodIsValid ==
    ret.op = "OperatingPeriod::is_valid" =>
        LET period == connections.connections[1].operating_periods[1]
        IN /\ ret.val <=>
                 /\ period.from_date <= date
                 /\ date <= period.to_date
                 /\ \E i \in period.day_bits :
                       /\ period.from_date + i * DayLen <= date
                       /\ date < period.from_date + (i + 1) * DayLen
           /\ ret.tested # None =>
                 ret.tested[1] <= (period.to_date - period.from_date) \div DayLen
           /\ period = [from_date |-> 0, to_date |-> 2 * DayLen, day_bits |-> {0, 2}] =>
                 /\ date = 0 => ret.val
                 /\ date = DayLen => ~ret.val
                 /\ date = 2 * DayLen => ret.val
                 /\ date = 3 * DayLen => ~ret.val

C9_Witness ==
    /\ ret.op = "OperatingPeriod::is_valid"
    /\ connections.connections[1].operating_periods[1]
           = [from_date |-> 0, to_date |-> 2 * DayLen, day_bits |-> {0, 2}]
    /\ date = 2 * DayLen
    /\ ret.val
    /\ ret.tested = Some(2)

----------------------------------------------------------------------------
(* C10: the stops list MultiConnection::from produces holds every observed  *)
(* name exactly once, in order of first occurrence over the files, so that  *)
(* name -> index is a bijection onto 0 .. len - 1.                          *)
RECURSIVE Observed(_, _)
Observed(files, k) ==
    IF k > Len(files) THEN <<>> ELSE files[k].stops \o Observed(files, k + 1)

FirstAt(seq, x) == SetMin({i \in DOMAIN seq : seq[i] = x})

C10_StopsDeduplicated ==
    pc = "merged" =>
        LET all == Observed(value, 1)
            stops == connections.stops
        IN /\ Range(stops) = Range(all)
           /\ \A i, j \in DOMAIN stops : i # j => stops[i] # stops[j]
           /\ Cardinality(Range(stops)) = Len(stops)
           /\ \A i, j \in DOMAIN stops :
                 i < j => FirstAt(all, stops[i]) < FirstAt(all, stops[j])

C10_Witness ==
    /\ pc = "merged"
    /\ Len(value) = 2
    /\ \E i, j \in DOMAIN value[1].stops : i < j /\ value[1].stops[i] = value[1].stops[j]
    /\ Range(value[1].stops) \cap Range(value[2].stops) # {}
    /\ Range(value[2].stops) \ Range(value[1].stops) # {}
    /\ Len(connections.stops) >= 2

----------------------------------------------------------------------------
(* C11: stop_by_id never gives a wrong answer and never fails: a stop it    *)
(* returns is one the id stands for (the Init, the Final or the time vertex *)
(* for t of the station named); the station it looks at is always a key of  *)
(* the stations map; an id no station owns (past the last assigned vertex,  *)
(* or any id of a graph without stations) gives not-found.                  *)
C11_StopByIdSound ==
    ret.op = "stop_by_id" =>
        /\ \A k \in DOMAIN stations_by_ids : stations_by_ids[k] \in DOMAIN stations
        /\ ret.val # None => ret.val[1] \in Owned(ret.id)
        /\ Owned(ret.id) = {} => ret.val = None
        /\ ret.id >= vert_count => ret.val = None
        /\ DOMAIN stations = {} => ret.val = None

(* the Init of a station that is not numbered first is resolved *)
C11_Witness ==
    /\ ret.op = "stop_by_id"
    /\ ret.id >= 3
    /\ ret.val # None
    /\ ret.val[1].detail = <<"Initial">>
    /\ stations[ret.val[1].name].init = ret.id

----------------------------------------------------------------------------
(* C12 (as claimed): vertex numbering walks the stations in registry order: *)
(* for two stations at indices i < j of the feed's stops list, the Init id  *)
(* of the first is below the Init id of the second, so the ids are a        *)
(* function of the feed and the date alone.                                 *)
C12_RegistryOrder ==
    Numbered =>
        \A i, j \in DOMAIN connections.stops :
            i < j => stations[connections.stops[i]].init < stations[connections.stops[j]].init

----------------------------------------------------------------------------
(* C13: after the time collection the times of a station are exactly the    *)
(* arrival and departure times of day of the passings at that station of    *)
(* the trips that run on the target date, each with a vertex of its own; a  *)
(* trip that does not run on the date adds no time vertex and no edge:      *)
(* every edge of the built graph is an in-station edge of one of those      *)
(* times or the travel edge of a pair of a running trip.                    *)
NotRunningTrips ==
    UNION {{c.journeys[i].passings :
               i \in {i \in DOMAIN c.journeys : ~RunsOn(c.journeys[i], c, date)}} :
           c \in Range(connections.connections)}

StationEdges(s) ==
    {<<s.init, s.times[t]>> : t \in DOMAIN s.times} \cup
    {<<s.times[t], s.fin>> : t \in DOMAIN s.times} \cup
    ChainEdges(s)

TravelEdges ==
    {<<StartVert(pair), EndVert(pair)>> : pair \in {pair \in RunningPairs : Forward(pair)}}

C13_TimesOfRunningTrips ==
    /\ Numbered =>
          \A name \in DOMAIN stations :
              /\ DOMAIN stations[name].times = {e[2] : e \in {e \in Events : e[1] = name}}
              /\ \A t, u \in DOMAIN stations[name].times :
                     t # u => stations[name].times[t] # stations[name].times[u]
    /\ Numbered => vert_count = 2 * Cardinality(DOMAIN stations) + Cardinality(Events)
    /\ pc = "connected" => Edges = TravelEdges
    /\ pc = "done" =>
          Edges = TravelEdges \cup UNION {StationEdges(stations[n]) : n \in DOMAIN stations}

(* a trip that does not run passes a station at a time no running trip does *)
C13_Witness ==
    /\ pc = "done"
    /\ \E ps \in NotRunningTrips : \E i \in DOMAIN ps :
          /\ ps[i].departure # None
          /\ ps[i].departure[1] \notin DOMAIN stations[StopName(ps[i])].times
          /\ DOMAIN stations[StopName(ps[i])].times # {}
    /\ \E pair \in RunningPairs : Forward(pair)

----------------------------------------------------------------------------
(* C14 (as claimed): the built graph has at most 3 * vert_count edges, wait *)
(* edges, Init-fan edges, Final-fan edges and travel edges together: the    *)
(* edge capacity it was allocated with.                                     *)
C14_EdgesWithinCapacity ==
    pc = "done" => Cardinality(Edges) <= 3 * vert_count

(* C14 (amended): the edges that are not travel edges (wait, Init-fan and   *)
(* Final-fan edges) number at most three per time vertex, less one for      *)
(* every station that has a time, which is below 3 * vert_count; the travel *)
(* edges come on top, at most one for every pair of time vertices a running *)
(* trip joins.                                                              *)
C14_InStationEdgesWithinCapacity ==
    pc = "done" =>
        LET time_verts == vert_count - 2 * Cardinality(DOMAIN stations)
            timed == {n \in DOMAIN stations : DOMAIN stations[n].times # {}}
            in_station == Edges \ TravelEdges
        IN /\ Cardinality(in_station) <= 3 * time_verts - Cardinality(timed)
           /\ Cardinality(in_station) <= 3 * vert_count
           /\ Cardinality(Edges) <= Cardinality(in_station) + Cardinality(TravelEdges)
           /\ Cardinality(TravelEdges) <= Cardinality(RunningPairs)

(* more edges than the capacity, and all but the travel edges within it *)
C14_Witness ==
    /\ pc = "done"
    /\ Cardinality(Edges) > 3 * vert_count
    /\ Cardinality(Edges \ TravelEdges) = 3 * (vert_count - 4) - 2

----------------------------------------------------------------------------
(* C15: after MultiConnection::from every passing names the station it      *)
(* named in its file: for a passing with file-local stop index k of file f, *)
(* the global stops entry at its new stop_point is f's stops[k]; the        *)
(* journeys keep their number and order, and their arrivals, departures,    *)
(* validity windows and day-type lists are unchanged.                       *)
C15_PassingsKeepTheirStation ==
    pc = "merged" =>
        /\ Len(connections.connections) = Len(value)
        /\ \A f \in DOMAIN value :
              LET file == value[f]
                  sub == connections.connections[f]
              IN /\ Len(sub.journeys) = Len(file.journeys)
                 /\ \A j \in DOMAIN file.journeys :
                       LET old == file.journeys[j]
                           new == sub.journeys[j]
                       IN /\ Len(new.passings) = Len(old.passings)
                          /\ \A p \in DOMAIN old.passings :
                                /\ new.passings[p].stop_point + 1 \in DOMAIN connections.stops
                                /\ connections.stops[new.passings[p].stop_point + 1]
                                       = file.stops[old.passings[p].stop_point + 1]
                                /\ new.passings[p].arrival = old.passings[p].arrival
                                /\ new.passings[p].departure = old.passings[p].departure
                          /\ new.valid_from = old.valid_from
                          /\ new.valid_to = old.valid_to
                          /\ new.days = old.days

(* a passing of the second file whose index changes, at a name the first    *)
(* file has, and one at a name that is new                                  *)
C15_Witness ==
    /\ pc = "merged"
    /\ Len(value) = 2
    /\ \E p, q \in DOMAIN value[2].journeys[1].passings :
          LET old == value[2].journeys[1].passings
              new == connections.connections[2].journeys[1].passings
          IN /\ new[p].stop_point # old[p].stop_point
             /\ value[2].stops[old[p].stop_point + 1] \in Range(value[1].stops)
             /\ value[2].stops[old[q].stop_point + 1] \notin Range(value[1].stops)

----------------------------------------------------------------------------
(* C16: in the graph, after the travel edges and after the in-station       *)
(* edges, every edge between two time vertices weighs the time of day of    *)
(* its target minus that of its source, in seconds, and that is positive;   *)
(* so no path comes back to the vertex it left, and every path from the     *)
(* time vertex (s1, t1) to the time vertex (s2, t2) weighs t2 - t1 > 0.     *)
AllTimeVerts == UNION {TimeVerts(n) : n \in DOMAIN stations}

TimeOf(v) ==
    CHOOSE t \in 0 .. MaxTime :
        \E n \in DOMAIN stations : t \in DOMAIN stations[n].times /\ stations[n].times[t] = v

TimeEdges == {e \in Edges : e[1] \in AllTimeVerts /\ e[2] \in AllTimeVerts}

(* <<from, to, total weight>> of the paths of at most k more edges than    *)
(* those of P                                                               *)
RECURSIVE Paths(_, _)
Paths(P, k) ==
    LET more == P \cup {<<pe[1][1], pe[2][2], pe[1][3] + graph.edges[pe[2]]>> :
                            pe \in {pe \in P \X Edges : pe[1][2] = pe[2][1]}}
    IN IF k = 0 \/ more = P THEN more ELSE Paths(more, k - 1)

AllPaths == Paths({<<e[1], e[2], graph.edges[e]>> : e \in Edges}, Cardinality(graph.nodes))

C16_WeightsAreTimeDifferences ==
    pc \in {"connected", "done"} =>
        /\ \A e \in TimeEdges :
              /\ graph.edges[e] = TimeOf(e[2]) - TimeOf(e[1])
              /\ graph.edges[e] > 0
        /\ \A p \in AllPaths :
              /\ p[1] # p[2]
              /\ (p[1] \in AllTimeVerts /\ p[2] \in AllTimeVerts) =>
                     /\ p[3] = TimeOf(p[2]) - TimeOf(p[1])
                     /\ TimeOf(p[2]) > TimeOf(p[1])

(* a path of a ride, a wait and a ride between two stations no edge joins *)
C16_Witness ==
    /\ pc = "done"
    /\ \E p \in AllPaths :
          /\ p[1] \in AllTimeVerts /\ p[2] \in AllTimeVerts
          /\ p[3] = MaxTime
          /\ \A n \in DOMAIN stations : ~(p[1] \in TimeVerts(n) /\ p[2] \in TimeVerts(n))
          /\ \A e \in Edges : e[1] # p[1] \/ e[2] \notin AllTimeVerts \/ graph.edges[e] = 1

----------------------------------------------------------------------------
(* C17: for stations A and C the distance from Init(A) to Final(C) is the   *)
(* least tC - tA, in seconds, over the time vertices (A, tA) and (C, tC)    *)
(* such that the second is the first or is reached from it through travel   *)
(* and wait edges; Final(C) is not reached when there is no such pair; and  *)
(* the distance from Init(A) to Final(A) is 0 when A has a time vertex.     *)
C17_DoorToDoorDuration ==
    pc = "done" =>
        LET paths == AllPaths
        IN \A A \in DOMAIN stations :
               LET dist == dijkstra(graph, stations[A].init)
               IN /\ \A C \in DOMAIN stations :
                        LET joined == {<<a, c>> \in TimeVerts(A) \X TimeVerts(C) :
                                          a = c \/ \E p \in paths : p[1] = a /\ p[2] = c}
                        IN IF joined = {}
                           THEN stations[C].fin \notin DOMAIN dist
                           ELSE /\ stations[C].fin \in DOMAIN dist
                                /\ dist[stations[C].fin] =
                                       SetMin({TimeOf(ac[2]) - TimeOf(ac[1]) : ac \in joined})
                  /\ DOMAIN stations[A].times # {} =>
                        /\ stations[A].fin \in DOMAIN dist
                        /\ dist[stations[A].fin] = 0

(* C is reached from A within a second and also by a longer path from A's   *)
(* first time; a third station with times is not reached from A at all      *)
C17_Witness ==
    /\ pc = "done"
    /\ \E A, C, N \in DOMAIN stations :
          LET dist == dijkstra(graph, stations[A].init)
          IN /\ A # C
             /\ stations[C].fin \in DOMAIN dist
             /\ dist[stations[C].fin] = 1
             /\ \E p \in AllPaths :
                   /\ p[1] = stations[A].times[SetMin(DOMAIN stations[A].times)]
                   /\ p[2] \in TimeVerts(C)
                   /\ p[3] > 1
             /\ stations[N].fin \notin DOMAIN dist
             /\ DOMAIN stations[N].times # {}

----------------------------------------------------------------------------
(* C18 (as claimed): when a trip that runs on the target date has no        *)
(* passing or one passing, and no pair of a running trip lacks its          *)
(* departure, ConnectionGraph::new gets past the travel edges without       *)
(* failure and adds no edge for that trip: the edges are those of the       *)
(* forward pairs.                                                           *)
C18_ShortTripsComplete ==
    (/\ pc \in {"connected", "panic"}
     /\ \E ps \in RunningTrips : Len(ps) <= 1
     /\ \A pair \in RunningPairs : pair[1].departure # None)
    => /\ pc = "connected"
       /\ Edges = TravelEdges

----------------------------------------------------------------------------
(* C19: an edge the builder inserts for a (source, target) pair that has an *)
(* edge already (two trips sharing a leg, a travel edge on a wait edge of   *)
(* one station) carries the weight the pair has: the <<source, target,      *)
(* weight>> insertions agree wherever they meet and the graph holds them    *)
(* all, so the built graph is the same when the trips are processed in any  *)
(* other order and when the in-station edges are added before the travel    *)
(* edges.                                                                   *)
TravelInsertions ==
    {<<StartVert(pair), EndVert(pair), Elapsed(pair)>> :
        pair \in {pair \in RunningPairs : Forward(pair)}}

StationInsertions(s) ==
    LET ts == Ascending(DOMAIN s.times)
    IN {<<s.init, s.times[t], 0>> : t \in DOMAIN s.times} \cup
       {<<s.times[t], s.fin, 0>> : t \in DOMAIN s.times} \cup
       {<<s.times[ts[k]], s.times[ts[k + 1]], ts[k + 1] - ts[k]>> : k \in 1 .. Len(ts) - 1}

Insertions == TravelInsertions \cup UNION {StationInsertions(stations[n]) : n \in DOMAIN stations}

C19_OverwritesKeepTheWeight ==
    pc = "done" =>
        LET journeys == iter_valid_journeys(connections, date)
            start == [graph |-> EmptyGraph, panic |-> FALSE]
            within_first_of_all ==
                [graph |-> connect_within_stations(EmptyGraph, stations, order), panic |-> FALSE]
        IN /\ \A a, b \in Insertions : (a[1] = b[1] /\ a[2] = b[2]) => a[3] = b[3]
           /\ \A a \in Insertions :
                 <<a[1], a[2]>> \in Edges /\ graph.edges[<<a[1], a[2]>>] = a[3]
           /\ \A perm \in Orderings(DOMAIN journeys) :
                 connect_within_stations(
                     connect_journeys(start, stations, connections.stops,
                                      [i \in DOMAIN journeys |-> journeys[perm[i]]], 0).graph,
                     stations, order) = graph
           /\ connect_journeys(within_first_of_all, stations, connections.stops,
                               journeys, 0).graph = graph

(* two trips share a leg, which lies on a wait edge of one station *)
C19_Witness ==
    /\ pc = "done"
    /\ LET journeys == iter_valid_journeys(connections, date)
       IN /\ Len(journeys) = 2
          /\ journeys[1].passings = journeys[2].passings
          /\ \E pair \in RunningPairs :
                /\ Forward(pair)
                /\ <<StartVert(pair), EndVert(pair)>>
                       \in ChainEdges(stations[StopName(pair[1])])

====
